---- MODULE Spec2Model ----
(***************************************************************************)
(* Route search and route statistics of src/src/source.py.                 *)
(*                                                                         *)
(* The script builds one road graph (a networkx MultiDiGraph), calls       *)
(* find_best_route on it once per criterion and calculate_route_statistics *)
(* on every route returned.  The model keeps the graph as the list of its  *)
(* edges in insertion order, which is the order networkx iterates in.      *)
(*                                                                         *)
(* Numbers.  Python computes with floats; the model computes with exact    *)
(* integers in fixed units:                                                *)
(*    length       centimetres        (the attribute is in metres)         *)
(*    maxspeed     km/h                                                    *)
(*    speed_kph    tenths of a km/h   (osmnx rounds it to 1 decimal)       *)
(*    travel_time  tenths of a second (osmnx rounds it to 1 decimal)       *)
(*    grade_abs    the attribute's own unit                                *)
(*    statistics   1/10000 of the reported unit (round(x, 4))              *)
(* round(x, 4) on a binary float resolves a decimal tie by the float's     *)
(* low bits, so a tie may go either way: RoundSet keeps both outcomes.     *)
(***************************************************************************)
EXTENDS Integers, Sequences, FiniteSets, TLC

VARIABLES graph, graph0, pc, priority, route, stats, work, error, runs, first

vars == <<graph, graph0, pc, priority, route, stats, work, error, runs, first>>

---------------------------------------------------------------------------
(* Vehicle parameters, source lines 16-18.  0.1 and 5.5 are kept as        *)
(* fractions.                                                              *)
AVERAGE_SPEED_KMH == 30
FUEL_CONSUMPTION_PER_KM == [num |-> 1, den |-> 10]
FUEL_COST_PER_LITER == [num |-> 11, den |-> 2]

(* The four criteria of the script's loop, source line 161. *)
criteria == <<"distancia", "tempo", "combustivel", "custo">>

Criteria == {criteria[i] : i \in DOMAIN criteria}

(* What a caller may pass as priority: a criterion or anything else. *)
Priorities == Criteria \cup {"outro"}

---------------------------------------------------------------------------
(* Bounds of the checked graphs. *)
MaxEdges == 3

Nodes == {"A", "B", "C"}

(* Node pairs that may carry edges, in the order the edges are inserted. *)
EdgePairs == << <<"A", "B">>, <<"A", "C">>, <<"B", "C">>, <<"C", "B">> >>

(* Attribute bags an edge may carry.  Every edge has a length (source line *)
(* 25 computes it for all edges); maxspeed and grade_abs are optional.     *)
EdgeData ==
  { [length |-> 100000, grade_abs |-> 0, maxspeed |-> 30],
    [length |-> 200000, grade_abs |-> 0, maxspeed |-> 90],
    [length |-> 40055, grade_abs |-> 100] }

(* networkx numbers parallel edges 0, 1, 2, ...; the keys are written as   *)
(* strings so that a lookup of an attribute name in a key dictionary is    *)
(* an ordinary membership test.                                            *)
KeyNames == <<"0", "1", "2", "3", "4", "5">>

---------------------------------------------------------------------------
(* Python dictionaries: functions with a finite domain. *)
EmptyDict == [k \in {} |-> 0]

Put(d, k, x) == (k :> x) @@ d

(* dict.get(name, default) *)
Get(d, name, default) == IF name \in DOMAIN d THEN d[name] ELSE default

RECURSIVE SumSeq(_)
SumSeq(s) == IF s = <<>> THEN 0 ELSE Head(s) + SumSeq(Tail(s))

RECURSIVE Reverse(_)
Reverse(s) == IF s = <<>> THEN <<>> ELSE Append(Reverse(Tail(s)), Head(s))

Min(S) == CHOOSE x \in S : \A y \in S : x <= y

(* The integers nearest to num/den (num >= 0, den > 0): one, or the two    *)
(* neighbours of an exact tie.                                             *)
RoundSet(num, den) ==
  LET q == num \div den
      r == num % den
  IN  IF 2 * r < den THEN {q}
      ELSE IF 2 * r > den THEN {q + 1}
      ELSE {q, q + 1}

(* numpy's round of num/den: to nearest, an exact tie to the even side. *)
RoundHalfEven(num, den) ==
  LET q == num \div den
      r == num % den
  IN  IF 2 * r < den THEN q
      ELSE IF 2 * r > den THEN q + 1
      ELSE IF q % 2 = 0 THEN q ELSE q + 1

---------------------------------------------------------------------------
(* The graph: its edges in insertion order, each with the endpoints u, v,  *)
(* the key among the parallel edges of (u, v) and the attribute bag.       *)

(* An input: a list of (pair, attribute bag), pairs in insertion order.    *)
InputLists ==
  { s \in UNION { [1..n -> (DOMAIN EdgePairs) \X EdgeData] : n \in 1..MaxEdges } :
      \A i \in 1..(Len(s) - 1) : s[i][1] <= s[i + 1][1] }

(* MultiDiGraph.add_edge: the new edge's key is the number of edges that   *)
(* (u, v) already has.                                                     *)
MakeGraph(s) ==
  [ i \in DOMAIN s |->
      [ u    |-> EdgePairs[s[i][1]][1],
        v    |-> EdgePairs[s[i][1]][2],
        key  |-> KeyNames[Cardinality({ j \in 1..(i - 1) : s[j][1] = s[i][1] }) + 1],
        data |-> s[i][2] ] ]

(* The graphs find_best_route is checked on. *)
Graphs == { MakeGraph(s) : s \in InputLists }

EdgesFromTo(G, u, v) == { i \in DOMAIN G : G[i].u = u /\ G[i].v = v }

(* G[u][v]: the key dictionary of the parallel edges from u to v. *)
KeyDict(G, u, v) ==
  [ k \in { G[i].key : i \in EdgesFromTo(G, u, v) } |->
      G[CHOOSE i \in EdgesFromTo(G, u, v) : G[i].key = k].data ]

RECURSIVE Distinct(_)
Distinct(s) ==
  IF s = <<>> THEN <<>>
  ELSE LET r == Distinct(SubSeq(s, 1, Len(s) - 1))
           x == s[Len(s)]
       IN  IF \E i \in DOMAIN r : r[i] = x THEN r ELSE Append(r, x)

RECURSIVE SelectEnds(_, _, _)
SelectEnds(G, forward, n) ==
  IF G = <<>> THEN <<>>
  ELSE LET e == Head(G)
           rest == SelectEnds(Tail(G), forward, n)
       IN  IF forward /\ e.u = n THEN <<e.v>> \o rest
           ELSE IF ~forward /\ e.v = n THEN <<e.u>> \o rest
           ELSE rest

(* G._succ[n] (dir = 0) and G._pred[n] (dir = 1): the neighbours of n in   *)
(* the order their first edge was inserted.                                *)
Neighs(G, dir, n) == Distinct(SelectEnds(G, dir = 0, n))

---------------------------------------------------------------------------
(* ox.add_edge_speeds, source line 55: speed_kph is the edge's maxspeed,   *)
(* or, for an edge without one, the mean maxspeed of the tagged edges      *)
(* (all edges are taken to be of one highway class), rounded to 1 decimal. *)
(* The attribute is written into the graph object itself.  The call is     *)
(* made without hwy_speeds and without fallback, so on a graph in which no *)
(* edge has a maxspeed it raises ValueError.                               *)
TaggedSpeeds(G) ==
  [ i \in 1..Cardinality({ j \in DOMAIN G : "maxspeed" \in DOMAIN G[j].data }) |->
      G[CHOOSE j \in DOMAIN G :
          /\ "maxspeed" \in DOMAIN G[j].data
          /\ Cardinality({ h \in 1..j : "maxspeed" \in DOMAIN G[h].data }) = i
       ].data.maxspeed ]

NoSpeedData(G) == TaggedSpeeds(G) = <<>>

MeanSpeed(G) == RoundHalfEven(10 * SumSeq(TaggedSpeeds(G)), Len(TaggedSpeeds(G)))

add_edge_speeds(G) ==
  [ i \in DOMAIN G |->
      [ G[i] EXCEPT !.data =
          Put(@, "speed_kph",
              IF "maxspeed" \in DOMAIN @ THEN 10 * @.maxspeed ELSE MeanSpeed(G)) ] ]

(* Mutant of TravelTime: the new value is added to the one already there. *)
TravelTimeAdded(data) ==
  Get(data, "travel_time", 0) + RoundHalfEven(18 * data.length, 5 * data.speed_kph)

(* ox.add_edge_travel_times, source line 56: travel_time in seconds is     *)
(* (length / 1000) / (speed_kph / 3600), rounded to 1 decimal; with the    *)
(* model's units, 18 * length / (5 * speed_kph) tenths of a second.        *)
TravelTime(data) == RoundHalfEven(18 * data.length, 5 * data.speed_kph)

(* Mutant of add_edge_travel_times: the travel time is written over the   *)
(* length instead of into travel_time.                                     *)
add_edge_travel_times_into_length(G) ==
  [ i \in DOMAIN G |->
      [ G[i] EXCEPT !.data = Put(Put(@, "travel_time", TravelTime(@)),
                                 "length", TravelTime(@)) ] ]

add_edge_travel_times(G) ==
  [ i \in DOMAIN G |->
      [ G[i] EXCEPT !.data = Put(@, "travel_time", TravelTime(@)) ] ]

(* Source lines 73-74: data.setdefault('length', 0) on every edge. *)
SetDefaultLength(G) ==
  [ i \in DOMAIN G |->
      [ G[i] EXCEPT !.data = IF "length" \in DOMAIN @ THEN @ ELSE Put(@, "length", 0) ] ]

(* Everything find_best_route writes into the graph for a priority that    *)
(* passes the dispatch: lines 54-56, then lines 73-74.                     *)
DefaultAttributes(p, G) ==
  SetDefaultLength(IF p = "tempo" THEN add_edge_travel_times(add_edge_speeds(G)) ELSE G)

---------------------------------------------------------------------------
(* The weights of source lines 59-68.                                      *)

(* Line 65, the combustivel lambda applied to a dictionary d, in units of  *)
(* 1/(100 * FUEL_CONSUMPTION_PER_KM.den).                                  *)
FuelLambda(d) ==
  100 * Get(d, "length", 0) * FUEL_CONSUMPTION_PER_KM.num
  + Get(d, "grade_abs", 0) * Get(d, "length", 0) * FUEL_CONSUMPTION_PER_KM.num

(* Line 68, the custo lambda applied to a dictionary d, in units of        *)
(* 1/(100 * FUEL_CONSUMPTION_PER_KM.den * FUEL_COST_PER_LITER.den).        *)
CostLambda(d) ==
  100 * Get(d, "length", 0) * FUEL_CONSUMPTION_PER_KM.num * FUEL_COST_PER_LITER.num
  + Get(d, "grade_abs", 0) * Get(d, "length", 0)
      * FUEL_CONSUMPTION_PER_KM.num * FUEL_COST_PER_LITER.num

(* Lines 59-62: the attribute name used as weight. *)
WeightName(p) == IF p = "distancia" THEN "length" ELSE "travel_time"

(* The value 1 of an attribute, in the model's unit for it. *)
AttrOne(name) == IF name = "length" THEN 100 ELSE 10

(* What the search pays for the hop u -> v.  networkx hands a weight the   *)
(* entry G[u][v], which in a MultiDiGraph is the key dictionary of the     *)
(* parallel edges: for an attribute name it takes the least value over the *)
(* parallel edges (1 where the attribute is missing); a callable is called *)
(* with the key dictionary itself.                                         *)
EdgeCost(G, p, u, v) ==
  LET d == KeyDict(G, u, v)
  IN  CASE p = "combustivel" -> FuelLambda(d)
        [] p = "custo" -> CostLambda(d)
        [] OTHER ->
             Min({ Get(d[k], WeightName(p), AttrOne(WeightName(p))) : k \in DOMAIN d })

---------------------------------------------------------------------------
(* nx.bidirectional_dijkstra, which ox.shortest_path (source line 77)      *)
(* runs for one origin and one destination.  The search state holds, for   *)
(* the forward (index 1) and the backward (index 2) direction, the final   *)
(* distances, the paths, the heap and the seen distances; c is the counter *)
(* that breaks ties in the heap.                                           *)
SearchStart(source, target) ==
  [ dists     |-> <<EmptyDict, EmptyDict>>,
    paths     |-> <<Put(EmptyDict, source, <<source>>), Put(EmptyDict, target, <<target>>)>>,
    fringe    |-> <<{<<0, 0, source>>}, {<<0, 1, target>>}>>,
    seen      |-> <<Put(EmptyDict, source, 0), Put(EmptyDict, target, 0)>>,
    c         |-> 2,
    finaldist |-> 0,
    finalpath |-> <<>>,
    dir       |-> 1 ]

(* heappop: the entry with the least (distance, counter). *)
HeapTop(h) ==
  CHOOSE e \in h : \A f \in h : e[1] < f[1] \/ (e[1] = f[1] /\ e[2] <= f[2])

(* One pass of the inner loop: the neighbour w of the node v just settled. *)
RelaxOne(G, p, s, v, w) ==
  LET d == s.dir + 1
      cost == IF s.dir = 0 THEN EdgeCost(G, p, v, w) ELSE EdgeCost(G, p, w, v)
      vwLength == s.dists[d][v] + cost
  IN  IF w \in DOMAIN s.dists[d] THEN s
      ELSE IF w \notin DOMAIN s.seen[d] \/ vwLength < s.seen[d][w]
      THEN LET seen1 == [s.seen EXCEPT ![d] = Put(@, w, vwLength)]
               paths1 == [s.paths EXCEPT ![d] = Put(@, w, Append(s.paths[d][v], w))]
               both == w \in DOMAIN seen1[1] /\ w \in DOMAIN seen1[2]
               totaldist == seen1[1][w] + seen1[2][w]
               better == both /\ (s.finalpath = <<>> \/ s.finaldist > totaldist)
           IN  [ s EXCEPT
                   !.seen = seen1,
                   !.paths = paths1,
                   !.fringe[d] = @ \cup {<<vwLength, s.c, w>>},
                   !.c = @ + 1,
                   !.finaldist = IF better THEN totaldist ELSE @,
                   !.finalpath = IF better
                                 THEN paths1[1][w] \o Tail(Reverse(paths1[2][w]))
                                 ELSE @ ]
      ELSE s

RECURSIVE Relax(_, _, _, _, _)
Relax(G, p, s, v, ws) ==
  IF ws = <<>> THEN s
  ELSE Relax(G, p, RelaxOne(G, p, s, v, Head(ws)), v, Tail(ws))

(* The while loop; the result is the path found, or found = FALSE where    *)
(* networkx raises NetworkXNoPath.                                         *)
RECURSIVE SearchLoop(_, _, _)
SearchLoop(G, p, s) ==
  IF s.fringe[1] = {} \/ s.fringe[2] = {}
  THEN [found |-> FALSE, path |-> <<>>]
  ELSE LET dir == 1 - s.dir
           d == dir + 1
           top == HeapTop(s.fringe[d])
           v == top[3]
           s1 == [s EXCEPT !.dir = dir, !.fringe[d] = @ \ {top}]
       IN  IF v \in DOMAIN s1.dists[d] THEN SearchLoop(G, p, s1)
           ELSE LET s2 == [s1 EXCEPT !.dists[d] = Put(@, v, top[1])]
                IN  IF v \in DOMAIN s2.dists[3 - d]
                    THEN [found |-> TRUE, path |-> s2.finalpath]
                    ELSE SearchLoop(G, p, Relax(G, p, s2, v, Neighs(G, dir, v)))

bidirectional_dijkstra(G, source, target, p) ==
  IF source = target THEN [found |-> TRUE, path |-> <<source>>]
  ELSE SearchLoop(G, p, SearchStart(source, target))

(* A route as Python holds it: a list of nodes, or None. *)
NoneRoute == [kind |-> "None", nodes |-> <<>>]

ListRoute(nodes) == [kind |-> "list", nodes |-> nodes]

(* ox.shortest_path, source line 77: the path of the search, and None      *)
(* where the search raises NetworkXNoPath (osmnx catches it and logs).     *)
shortest_path(G, orig, dest, p) ==
  LET r == bidirectional_dijkstra(G, orig, dest, p)
  IN  IF r.found THEN ListRoute(r.path) ELSE NoneRoute

(* ox.distance.nearest_nodes, source lines 50-51: the node next to each of *)
(* the two fixed points of lines 28-29.                                    *)
nearest_nodes(G, point) == IF point = "POINT_A" THEN "A" ELSE "C"

---------------------------------------------------------------------------
(* ox.routing.route_to_gdf, source line 33, called without a weight: for   *)
(* every hop of the route the parallel edge of least length, the first     *)
(* such edge on a tie; the result lists their attribute bags.              *)
GdfEdge(G, u, v) ==
  CHOOSE i \in EdgesFromTo(G, u, v) :
    \A j \in EdgesFromTo(G, u, v) :
      \/ G[i].data.length < G[j].data.length
      \/ (G[i].data.length = G[j].data.length /\ i <= j)

(* Mutant of route_to_gdf: the last hop is left out. *)
route_to_gdf_short(G, nodes) ==
  [ h \in 1..(Len(nodes) - 2) |-> G[GdfEdge(G, nodes[h], nodes[h + 1])].data ]

route_to_gdf(G, nodes) ==
  [ h \in 1..(Len(nodes) - 1) |-> G[GdfEdge(G, nodes[h], nodes[h + 1])].data ]

(* "grade_abs" in route_gdf.columns: the frame is cut from the subgraph    *)
(* the route's nodes induce, so the column exists when any edge among      *)
(* those nodes has the attribute.                                          *)
HasGradeColumn(G, nodes) ==
  \E i \in DOMAIN G :
    /\ \E h \in DOMAIN nodes : nodes[h] = G[i].u
    /\ \E h \in DOMAIN nodes : nodes[h] = G[i].v
    /\ "grade_abs" \in DOMAIN G[i].data

(* Source line 34: round(length.sum() / 1000, 4), from centimetres. *)
TotalDistanceKm(length_sum) == RoundSet(length_sum, 10)

(* Mutant of TotalTimeMin: distance times speed over 60. *)
TotalTimeMinInverted(total_distance_km) ==
  RoundSet(total_distance_km * AVERAGE_SPEED_KMH, 60)

(* Source line 35: round((total_distance_km / AVERAGE_SPEED_KMH) * 60, 4). *)
TotalTimeMin(total_distance_km) == RoundSet(total_distance_km * 60, AVERAGE_SPEED_KMH)

(* Mutant of FuelUsedLiters: the value is cut, not rounded. *)
FuelUsedLitersCut(total_distance_km) ==
  { (total_distance_km * FUEL_CONSUMPTION_PER_KM.num) \div FUEL_CONSUMPTION_PER_KM.den }

(* Source line 36: round(total_distance_km * FUEL_CONSUMPTION_PER_KM, 4). *)
FuelUsedLiters(total_distance_km) ==
  RoundSet(total_distance_km * FUEL_CONSUMPTION_PER_KM.num, FUEL_CONSUMPTION_PER_KM.den)

(* Source line 37: round(fuel_used_liters * FUEL_COST_PER_LITER, 4). *)
TotalFuelCost(fuel_used_liters) ==
  RoundSet(fuel_used_liters * FUEL_COST_PER_LITER.num, FUEL_COST_PER_LITER.den)

(* Source line 38: round(grade_abs.sum(), 4) if the column exists, else 0; *)
(* the sum skips the edges without the attribute.                          *)
ElevationGain(G, nodes, route_gdf) ==
  IF HasGradeColumn(G, nodes)
  THEN 10000 * SumSeq([h \in DOMAIN route_gdf |-> Get(route_gdf[h], "grade_abs", 0)])
  ELSE 0

(* calculate_route_statistics, source lines 32-46: the records it may      *)
(* return, every value in 1/10000 of its unit.                             *)
RouteStatistics(G, nodes) ==
  LET route_gdf == route_to_gdf(G, nodes)
      length_sum == SumSeq([h \in DOMAIN route_gdf |-> route_gdf[h].length])
  IN  UNION { UNION { UNION { UNION {
        { [ distance_km    |-> total_distance_km,
            time_min       |-> total_time_min,
            cost           |-> total_fuel_cost,
            fuel_liters    |-> fuel_used_liters,
            elevation_gain |-> ElevationGain(G, nodes, route_gdf) ] } :
          total_fuel_cost \in TotalFuelCost(fuel_used_liters) } :
          fuel_used_liters \in FuelUsedLiters(total_distance_km) } :
          total_time_min \in TotalTimeMin(total_distance_km) } :
          total_distance_km \in TotalDistanceKm(length_sum) }

NoStatistics ==
  [distance_km |-> 0, time_min |-> 0, cost |-> 0, fuel_liters |-> 0, elevation_gain |-> 0]

---------------------------------------------------------------------------
(* The script, source lines 160-173: find_best_route, then                 *)
(* calculate_route_statistics on its result, once per criterion.  The      *)
(* model lets the caller pass any priority, any number of times.  pc is    *)
(* "main" at the head of the loop, "routed" when find_best_route has       *)
(* returned, "reported" when the statistics are computed, and "halted"     *)
(* when an exception has ended the script.                                 *)

Count(n) == IF n < 2 THEN n + 1 ELSE n

Init ==
  /\ graph \in Graphs
  /\ graph0 = graph
  /\ pc = "main"
  /\ priority = ""
  /\ route = NoneRoute
  /\ stats = NoStatistics
  /\ work = <<>>
  /\ error = ""
  /\ runs = [defaulting |-> 0, derivation |-> 0]
  /\ first = [defaulting |-> <<>>, derivation |-> <<>>]

(* find_best_route, source lines 49-77.  work lists the calls it makes on  *)
(* the graph, in order; runs tells whether a call has reached the          *)
(* defaulting of lines 73-74 (0, 1) and counts the calls that reached the  *)
(* derivation of lines 55-56 (0, 1, many), and first keeps the graph as    *)
(* the first such call left it.                                            *)
FindBestRoute(p) ==
  /\ pc = "main"
  /\ LET orig_node == nearest_nodes(graph, "POINT_A")
         dest_node == nearest_nodes(graph, "POINT_B")
         derived == IF p = "tempo" THEN add_edge_travel_times(add_edge_speeds(graph))
                    ELSE graph
         lookups == <<"nearest_nodes", "nearest_nodes">>
         derivations == IF p = "tempo" THEN <<"add_edge_speeds", "add_edge_travel_times">>
                        ELSE <<>>
     IN  IF p = "tempo" /\ NoSpeedData(graph)
         THEN /\ graph' = graph
              /\ work' = lookups \o <<"add_edge_speeds">>
              /\ error' = "ValueError"
              /\ pc' = "halted"
              /\ route' = NoneRoute
              /\ runs' = runs
              /\ first' = first
         ELSE IF p \notin Criteria
         THEN /\ graph' = derived
              /\ work' = lookups \o derivations
              /\ error' = "ValueError"
              /\ pc' = "halted"
              /\ route' = NoneRoute
              /\ runs' = runs
              /\ first' = first
         ELSE /\ graph' = SetDefaultLength(derived)
              /\ work' = lookups \o derivations \o <<"setdefault", "shortest_path">>
              /\ error' = ""
              /\ pc' = "routed"
              /\ route' = shortest_path(SetDefaultLength(derived), orig_node, dest_node, p)
              /\ runs' = [ defaulting |-> 1,
                           derivation |-> IF p = "tempo" THEN Count(runs.derivation)
                                          ELSE runs.derivation ]
              /\ first' = [ defaulting |-> IF runs.defaulting = 0
                                           THEN SetDefaultLength(derived)
                                           ELSE first.defaulting,
                            derivation |-> IF p = "tempo" /\ runs.derivation = 0
                                           THEN SetDefaultLength(derived)
                                           ELSE first.derivation ]
  /\ priority' = p
  /\ stats' = NoStatistics
  /\ UNCHANGED graph0

(* calculate_route_statistics on the route just returned, source line 167. *)
(* A route of None ends the script: route_to_gdf subscripts it.            *)
CalculateRouteStatistics ==
  /\ pc = "routed"
  /\ IF route.kind = "None"
     THEN /\ error' = "TypeError"
          /\ pc' = "halted"
          /\ stats' = stats
     ELSE /\ stats' \in RouteStatistics(graph, route.nodes)
          /\ pc' = "reported"
          /\ error' = error
  /\ UNCHANGED <<graph, graph0, priority, route, work, runs, first>>

(* The rest of the loop body, source lines 168-173: the statistics are     *)
(* appended and the map is drawn; the next iteration rebinds route and     *)
(* stats before it reads them.                                             *)
NextIteration ==
  /\ pc = "reported"
  /\ pc' = "main"
  /\ priority' = ""
  /\ route' = NoneRoute
  /\ stats' = NoStatistics
  /\ work' = <<>>
  /\ UNCHANGED <<graph, graph0, error, runs, first>>

Next ==
  \/ \E p \in Priorities : FindBestRoute(p)
  \/ CalculateRouteStatistics
  \/ NextIteration

Spec == Init /\ [][Next]_vars

---------------------------------------------------------------------------
(* Properties.                                                             *)

orig_node == nearest_nodes(graph0, "POINT_A")

dest_node == nearest_nodes(graph0, "POINT_B")

RECURSIVE ReachSet(_, _)
ReachSet(G, S) ==
  LET T == S \cup { G[i].v : i \in { j \in DOMAIN G : G[j].u \in S } }
  IN  IF T = S THEN S ELSE ReachSet(G, T)

Reachable(G, a, b) == b \in ReachSet(G, {a})

(* The node sequences from a to b along edges of G that repeat no node. *)
SimplePaths(G, a, b) ==
  { s \in UNION { [1..n -> Nodes] : n \in 2..Cardinality(Nodes) } :
      /\ s[1] = a
      /\ s[Len(s)] = b
      /\ \A i, j \in DOMAIN s : i # j => s[i] # s[j]
      /\ \A h \in 1..(Len(s) - 1) : EdgesFromTo(G, s[h], s[h + 1]) # {} }

(* The weight the specification gives one edge under criterion p: length,  *)
(* travel_time, length * FUEL_RATE * (1 + grade_abs / 100), and that times *)
(* FUEL_PRICE (scaled by 100 and by the fractions' denominators).          *)
StatedWeight(p, data) ==
  CASE p = "distancia" -> data.length
    [] p = "tempo" -> data.travel_time
    [] p = "combustivel" ->
         data.length * FUEL_CONSUMPTION_PER_KM.num * (100 + Get(data, "grade_abs", 0))
    [] p = "custo" ->
         data.length * FUEL_CONSUMPTION_PER_KM.num * (100 + Get(data, "grade_abs", 0))
           * FUEL_COST_PER_LITER.num

(* The parallel edges of u -> v of least stated weight. *)
CheapestEdges(G, p, u, v) ==
  { i \in EdgesFromTo(G, u, v) :
      \A j \in EdgesFromTo(G, u, v) : StatedWeight(p, G[i].data) <= StatedWeight(p, G[j].data) }

(* The stated weight of a node sequence: on every hop its cheapest edge. *)
StatedPathWeight(G, p, nodes) ==
  SumSeq([ h \in 1..(Len(nodes) - 1) |->
             Min({ StatedWeight(p, G[i].data) : i \in EdgesFromTo(G, nodes[h], nodes[h + 1]) }) ])

(* C1: for every criterion, on a graph whose destination node can be       *)
(* reached from the origin node, find_best_route returns a non-empty node  *)
(* list that starts at the origin node, ends at the destination node and   *)
(* whose consecutive nodes are joined by a directed edge of the graph.     *)
C1_RouteIsPath ==
  (priority \in Criteria /\ Reachable(graph0, orig_node, dest_node)) =>
    /\ pc # "halted"
    /\ pc = "routed" =>
         /\ route.kind = "list"
         /\ Len(route.nodes) >= 1
         /\ route.nodes[1] = orig_node
         /\ route.nodes[Len(route.nodes)] = dest_node
         /\ \A h \in 1..(Len(route.nodes) - 1) :
              EdgesFromTo(graph0, route.nodes[h], route.nodes[h + 1]) # {}

(* C2: for each criterion the returned route has the least total stated    *)
(* weight among all paths from the origin to the destination, parallel     *)
(* edges counted one by one.                                               *)
C2_MinimumWeight ==
  (pc = "routed" /\ route.kind = "list") =>
    \A s \in SimplePaths(graph, orig_node, dest_node) :
      StatedPathWeight(graph, priority, route.nodes) <= StatedPathWeight(graph, priority, s)

(* C3: find_best_route never returns an empty, partial or null route: when *)
(* the destination cannot be reached it raises instead.                    *)
C3_NoRouteIsAnError ==
  pc = "routed" =>
    /\ route.kind = "list"
    /\ route.nodes # <<>>
    /\ Reachable(graph0, orig_node, dest_node)

(* C4: when find_best_route raises the invalid-criterion error it has done *)
(* nothing on the graph before: no nearest-node lookup, no derivation, no  *)
(* defaulting, no search.                                                  *)
C4_CriterionCheckedFirst ==
  (pc = "halted" /\ priority \notin Criteria) => work = <<>>

C6_ExactProducts ==
  pc = "reported" =>
    /\ stats.cost * FUEL_COST_PER_LITER.den = stats.fuel_liters * FUEL_COST_PER_LITER.num
    /\ stats.fuel_liters * FUEL_CONSUMPTION_PER_KM.den
         = stats.distance_km * FUEL_CONSUMPTION_PER_KM.num

Abs(x) == IF x < 0 THEN -x ELSE x

(* C6 as amended: the reported cost is fuel_used * FUEL_PRICE rounded to 4 *)
(* decimals and the reported fuel_used is distance_km * FUEL_RATE rounded  *)
(* to 4 decimals: each is within half of the last reported decimal of the  *)
(* product.                                                                *)
C6_RoundedProducts ==
  pc = "reported" =>
    /\ 2 * Abs(stats.cost * FUEL_COST_PER_LITER.den
               - stats.fuel_liters * FUEL_COST_PER_LITER.num) <= FUEL_COST_PER_LITER.den
    /\ 2 * Abs(stats.fuel_liters * FUEL_CONSUMPTION_PER_KM.den
               - stats.distance_km * FUEL_CONSUMPTION_PER_KM.num)
         <= FUEL_CONSUMPTION_PER_KM.den

C6_Witness ==
  /\ pc = "reported"
  /\ stats.fuel_liters * FUEL_CONSUMPTION_PER_KM.den
       # stats.distance_km * FUEL_CONSUMPTION_PER_KM.num
  /\ stats.cost * FUEL_COST_PER_LITER.den # stats.fuel_liters * FUEL_COST_PER_LITER.num

(* C7 as stated: distance_km * AVERAGE_SPEED_KMH / 60 = time_min. *)
C7_TimeIsDistanceTimesSpeed ==
  pc = "reported" => stats.distance_km * AVERAGE_SPEED_KMH = stats.time_min * 60

(* C7 as amended: time_min = distance_km / AVERAGE_SPEED_KMH * 60, exactly *)
(* and whatever criterion selected the route.                              *)
C7_TimeIsDistanceOverSpeed ==
  pc = "reported" => stats.time_min * AVERAGE_SPEED_KMH = stats.distance_km * 60

C7_Witness ==
  /\ pc = "reported"
  /\ priority = "tempo"
  /\ stats.distance_km > 0
  /\ Len(route.nodes) = 3

(* The graph A -> B -> C with lengths 1000 m and 2000 m and grade_abs 0. *)
IsScenarioGraph(G) ==
  /\ Len(G) = 2
  /\ G[1].u = "A" /\ G[1].v = "B"
  /\ G[1].data.length = 100000 /\ Get(G[1].data, "grade_abs", -1) = 0
  /\ G[2].u = "B" /\ G[2].v = "C"
  /\ G[2].data.length = 200000 /\ Get(G[2].data, "grade_abs", -1) = 0

(* C8: on the graph A -> B -> C with lengths 1000 m and 2000 m and         *)
(* grade_abs 0 the distance criterion returns [A, B, C], and the           *)
(* statistics are 3.0 km, 6.0 min, 0.3 l, 1.65 and elevation gain 0.       *)
C8_Scenario ==
  (IsScenarioGraph(graph0) /\ priority = "distancia") =>
    /\ pc \in {"routed", "reported"} => route = ListRoute(<<"A", "B", "C">>)
    /\ pc = "reported" =>
         stats = [ distance_km |-> 30000, time_min |-> 60000, fuel_liters |-> 3000,
                   cost |-> 16500, elevation_gain |-> 0 ]

C8_Witness ==
  /\ IsScenarioGraph(graph0)
  /\ priority = "distancia"
  /\ pc = "reported"

(* C9: whatever calls went before, the route of a call is the route the    *)
(* same criterion finds alone on a fresh copy of the graph, its statistics *)
(* are statistics of that route on the fresh copy, and no call changes the *)
(* length or the grade_abs of an edge.                                     *)
C9_SearchesIndependent ==
  /\ pc \in {"routed", "reported"} =>
       route = shortest_path(DefaultAttributes(priority, graph0),
                             orig_node, dest_node, priority)
  /\ pc = "reported" =>
       stats \in RouteStatistics(DefaultAttributes(priority, graph0), route.nodes)
  /\ Len(graph) = Len(graph0)
  /\ \A i \in DOMAIN graph :
       /\ graph[i].data.length = graph0[i].data.length
       /\ ("grade_abs" \in DOMAIN graph[i].data) = ("grade_abs" \in DOMAIN graph0[i].data)
       /\ Get(graph[i].data, "grade_abs", 0) = Get(graph0[i].data, "grade_abs", 0)

C9_Witness ==
  /\ runs.derivation >= 1
  /\ priority = "distancia"
  /\ pc = "reported"
  /\ Len(route.nodes) = 3

(* C10: the reported distance is the (rounded) sum of the lengths of the   *)
(* edges the search chose: on every hop an edge of least weight under the  *)
(* criterion of the search.                                                *)
C10_DistanceOfChosenEdges ==
  pc = "reported" =>
    \E f \in [ 1..(Len(route.nodes) - 1) -> DOMAIN graph ] :
      /\ \A h \in DOMAIN f :
           f[h] \in CheapestEdges(graph, priority, route.nodes[h], route.nodes[h + 1])
      /\ stats.distance_km \in
           RoundSet(SumSeq([ h \in DOMAIN f |-> graph[f[h]].data.length ]), 10)

====
